---- MODULE Spec2Model ----
\* A model of the backend scaffold: the four health-check handlers of
\* apps/core/api.py, the two routing configurations (config/urls.py and
\* config/api_config.py) and the User model of apps/users/models.py.
EXTENDS Integers, Sequences, FiniteSets, TLC

VARIABLES
    dbFault,        \* fault of the database connection (NoFault when reachable)
    cacheFault,     \* fault of the cache backend (NoFault when reachable)
    migFault,       \* fault of the showmigrations management command
    migrations,     \* the migration plan: TRUE = applied, FALSE = unapplied
    cache,          \* the cache contents: a function from the keys present to values
    now,            \* the clock read by datetime.now(UTC)
    lastRequest,    \* the request handled by the step just taken (NoRequest otherwise)
    lastResponse,   \* what that request produced (NoResponse otherwise)
    calls,          \* the external calls that request made, in order
    users,          \* the rows of table users_user
    lastCreate      \* the last create_user call and its outcome

vars == <<dbFault, cacheFault, migFault, migrations, cache, now,
          lastRequest, lastResponse, calls, users, lastCreate>>

healthVars == <<dbFault, cacheFault, migFault, migrations, cache, now,
                lastRequest, lastResponse, calls>>

userVars == <<users, lastCreate>>

----------------------------------------------------------------------------
\* Bounds of the model.

MaxClock == 1
MaxMigrations == 1
MaxUsers == 2

----------------------------------------------------------------------------
\* Python values and exceptions.

PyNone == [type |-> "NoneType"]
PyStr(s) == [type |-> "str", value |-> s]
PyDict(d) == [type |-> "dict", value |-> d]

\* d[k] = v on a dict modelled as a function over the keys present
DictSet(d, k, v) == [x \in (DOMAIN d) \cup {k} |-> IF x = k THEN v ELSE d[x]]
DictDel(d, k) == [x \in (DOMAIN d) \ {k} |-> d[x]]
EmptyDict == [x \in {} |-> ""]

\* the direct base class of each exception class the model raises
BaseOf(cls) ==
    CASE cls = "ConnectionError" -> "OSError"
      [] cls = "OSError" -> "Exception"
      [] cls = "OperationalError" -> "DatabaseError"
      [] cls = "IntegrityError" -> "DatabaseError"
      [] cls = "DatabaseError" -> "Exception"
      [] cls = "ImportError" -> "Exception"
      [] cls = "CommandError" -> "Exception"
      [] cls = "ValueError" -> "Exception"
      [] cls = "PermissionError" -> "OSError"
      [] cls = "TypeError" -> "Exception"
      [] cls = "Exception" -> "BaseException"
      [] OTHER -> "object"

RECURSIVE IsSubclass(_, _)
IsSubclass(cls, of) ==
    IF cls = of THEN TRUE
    ELSE IF cls = "object" THEN FALSE
    ELSE IsSubclass(BaseOf(cls), of)

\* except (A, B) as e: the clause handles e when e is an instance of A or B
Catches(clause, exc) == \E c \in clause : IsSubclass(exc.cls, c)

\* str(e)
str(exc) == exc.msg

NoFault == [cls |-> "none", msg |-> ""]

DbFaults ==
    { [cls |-> "OperationalError", msg |-> "could not connect to server"],
      [cls |-> "ConnectionError", msg |-> ""] }

CacheFaults ==
    { [cls |-> "ConnectionError", msg |-> "Error 111 connecting to localhost:6379"] }

MigFaults ==
    { [cls |-> "CommandError", msg |-> "showmigrations failed"] }

\* the outcome of a call: it returned a value or it raised
Returned(v) == [raised |-> FALSE, value |-> v]
Raised(exc) == [raised |-> TRUE, exc |-> exc]

\* what a handler hands back to the API layer
Response(status, body) == [kind |-> "response", status |-> status, body |-> body]
Propagated(exc) == [kind |-> "raised", exc |-> exc]

HTTP_200_OK == 200

----------------------------------------------------------------------------
\* The services the handlers call.

CheckNames == {"database", "cache", "migrations"}
CacheKeys == {"health_check", "readiness_check"}
CacheStates == UNION { [K -> {"ok"}] : K \in SUBSET CacheKeys }

\* with connection.cursor() as cursor: cursor.execute("SELECT 1"); cursor.fetchone()
select_one(dbf) == IF dbf = NoFault THEN Returned(<<1>>) ELSE Raised(dbf)

\* cache.set(key, value, 1) under a copy-paste slip: the other handler's key
cache_set_other_key(c, cf, key, value) ==
    IF cf # NoFault THEN Raised(cf)
    ELSE Returned(DictSet(c, CHOOSE k \in CacheKeys : k # key, value))

\* cache.set(key, value, 1): the value is the cache after the write
cache_set(c, cf, key, value) ==
    IF cf # NoFault THEN Raised(cf) ELSE Returned(DictSet(c, key, value))

\* cache.get(key): the stored value, None when the key is absent
cache_get(c, cf, key) ==
    IF cf # NoFault THEN Raised(cf)
    ELSE Returned(IF key \in DOMAIN c THEN PyStr(c[key]) ELSE PyNone)

\* What the rest of the world may do to the cache between a handler's write and
\* its read: nothing, the entry's one-second timeout (or an eviction) removes a
\* key, the backend goes away, or a concurrent health request writes its sentinel.
MidEvents ==
    { [ev |-> "none", key |-> "", exc |-> NoFault] }
    \cup { [ev |-> "expire", key |-> k, exc |-> NoFault] : k \in CacheKeys }
    \cup { [ev |-> "disconnect", key |-> "", exc |-> e] : e \in CacheFaults }
    \cup { [ev |-> "concurrent_set", key |-> k, exc |-> NoFault] : k \in CacheKeys }

ApplyMid(c, cf, mid) ==
    CASE mid.ev = "expire" -> [cache |-> DictDel(c, mid.key), fault |-> cf]
      [] mid.ev = "disconnect" -> [cache |-> c, fault |-> mid.exc]
      [] mid.ev = "concurrent_set" -> [cache |-> DictSet(c, mid.key, "ok"), fault |-> cf]
      [] OTHER -> [cache |-> c, fault |-> cf]

\* cache.set(key, "ok", 1) followed by cache.get(key), as both cache checks do:
\* the outcome of the read (or the exception of whichever call raised), the
\* cache and its fault afterwards, and the calls made
sentinel_round_trip(c, cf, key, mid) ==
    LET w == cache_set(c, cf, key, "ok")
    IN  IF w.raised
        THEN [out |-> Raised(w.exc), cache |-> c, fault |-> cf,
              calls |-> <<"cache.set">>]
        ELSE LET m == ApplyMid(w.value, cf, mid)
             IN  [out |-> cache_get(m.cache, m.fault, key), cache |-> m.cache,
                  fault |-> m.fault, calls |-> <<"cache.set", "cache.get">>]

\* call_command("showmigrations", "--plan", stdout=out); out.getvalue():
\* one line per migration of the plan, "[X]" when applied and "[ ]" when not
showmigrations(migs, migf) ==
    IF migf # NoFault THEN Raised(migf)
    ELSE Returned([i \in 1..Len(migs) |-> IF migs[i] THEN "[X]" ELSE "[ ]"])

\* "[ ]" in out.getvalue()
has_pending(out) == \E i \in 1..Len(out) : out[i] = "[ ]"

----------------------------------------------------------------------------
\* The except clauses of apps/core/api.py.

DbExceptNarrow == {"ConnectionError"}
DbExcept == {"ConnectionError", "Exception"}
CacheExcept == {"ConnectionError", "Exception"}
ReadyDbExceptNarrow == {"ConnectionError"}
ReadyDbExcept == {"ConnectionError", "Exception"}
ReadyCacheExcept == {"ConnectionError", "Exception"}
ReadyMigExcept == {"ImportError", "Exception"}

----------------------------------------------------------------------------
\* The handlers. Each yields what it hands back (resp), the cache and the cache
\* fault it leaves, and the external calls it made.

HandlerResult(resp, c, cf, cs) ==
    [resp |-> resp, cache |-> c, fault |-> cf, calls |-> cs]

\* a liveness handler that pings the database first
health_check_pings_db(c, cf, t) ==
    IF dbFault # NoFault
    THEN HandlerResult(Propagated(dbFault), c, cf, <<"cursor.execute">>)
    ELSE HandlerResult(
            Response(HTTP_200_OK,
                     [status |-> "healthy", timestamp |-> t,
                      service |-> "backend-api", version |-> "1.0.0"]),
            c, cf, <<"cursor.execute">>)

health_check(c, cf, t) ==
    HandlerResult(
        Response(HTTP_200_OK,
                 [status |-> "healthy", timestamp |-> t,
                  service |-> "backend-api", version |-> "1.0.0"]),
        c, cf, <<>>)

database_health_check(c, cf, dbf, t) ==
    LET q == select_one(dbf)
        cs == <<"cursor.execute">>
    IN  IF ~q.raised
        THEN HandlerResult(
                Response(HTTP_200_OK,
                         [database |-> "connected", error |-> PyNone,
                          timestamp |-> t]), c, cf, cs)
        ELSE IF Catches(DbExcept, q.exc)
        THEN HandlerResult(
                Response(HTTP_200_OK,
                         [database |-> "error", error |-> PyStr(str(q.exc)),
                          timestamp |-> t]), c, cf, cs)
        ELSE HandlerResult(Propagated(q.exc), c, cf, cs)

\* a comparison that accepts whatever the read returned
sentinel_status_any(value) == "connected"

\* "connected" if value == "ok" else "error"
sentinel_status(value) == IF value = PyStr("ok") THEN "connected" ELSE "error"

cache_health_check(c, cf, mid, t) ==
    LET r == sentinel_round_trip(c, cf, "health_check", mid)
    IN  IF ~r.out.raised
        THEN HandlerResult(
                Response(HTTP_200_OK,
                         [cache |-> sentinel_status(r.out.value),
                          error |-> PyNone, timestamp |-> t]),
                r.cache, r.fault, r.calls)
        ELSE IF Catches(CacheExcept, r.out.exc)
        THEN HandlerResult(
                Response(HTTP_200_OK,
                         [cache |-> "error", error |-> PyStr(str(r.out.exc)),
                          timestamp |-> t]),
                r.cache, r.fault, r.calls)
        ELSE HandlerResult(Propagated(r.out.exc), r.cache, r.fault, r.calls)

\* all(checks.values()) computed as any(...)
all_values_any(checks) == \E k \in DOMAIN checks : checks[k]

\* all(checks.values())
all_values(checks) == \A k \in DOMAIN checks : checks[k]

\* The state readiness_check carries from one try block to the next; exc is the
\* exception on its way out of the handler, NoFault while there is none.
ReadyStart(c, cf) ==
    [checks |-> [k \in CheckNames |-> TRUE], errors |-> EmptyDict,
     cache |-> c, fault |-> cf, calls |-> <<>>, exc |-> NoFault]

\* # Check database
ready_db_step(st, dbf) ==
    IF st.exc # NoFault THEN st
    ELSE LET q == select_one(dbf)
             cs == Append(st.calls, "cursor.execute")
         IN  IF ~q.raised THEN [st EXCEPT !.calls = cs]
             ELSE IF Catches(ReadyDbExcept, q.exc)
             THEN [st EXCEPT !.calls = cs,
                             !.checks = DictSet(st.checks, "database", FALSE),
                             !.errors = DictSet(st.errors, "database", str(q.exc))]
             ELSE [st EXCEPT !.calls = cs, !.exc = q.exc]

\* # Check cache
ready_cache_step(st, mid) ==
    IF st.exc # NoFault THEN st
    ELSE LET r == sentinel_round_trip(st.cache, st.fault, "readiness_check", mid)
             after == [st EXCEPT !.calls = st.calls \o r.calls,
                                 !.cache = r.cache, !.fault = r.fault]
         IN  IF ~r.out.raised
             THEN IF r.out.value # PyStr("ok")
                  THEN [after EXCEPT !.checks = DictSet(st.checks, "cache", FALSE)]
                  ELSE after
             ELSE IF Catches(ReadyCacheExcept, r.out.exc)
             THEN [after EXCEPT !.checks = DictSet(st.checks, "cache", FALSE),
                                !.errors = DictSet(st.errors, "cache", str(r.out.exc))]
             ELSE [after EXCEPT !.exc = r.out.exc]

\* # Check for pending migrations
ready_migrations_step(st, migs, migf) ==
    IF st.exc # NoFault THEN st
    ELSE LET o == showmigrations(migs, migf)
             cs == Append(st.calls, "call_command")
         IN  IF ~o.raised
             THEN IF has_pending(o.value)
                  THEN [st EXCEPT !.calls = cs,
                                  !.checks = DictSet(st.checks, "migrations", FALSE),
                                  !.errors = DictSet(st.errors, "migrations",
                                                     "Pending migrations detected")]
                  ELSE [st EXCEPT !.calls = cs]
             ELSE IF Catches(ReadyMigExcept, o.exc)
             THEN [st EXCEPT !.calls = cs,
                             !.checks = DictSet(st.checks, "migrations", FALSE),
                             !.errors = DictSet(st.errors, "migrations", str(o.exc))]
             ELSE [st EXCEPT !.calls = cs, !.exc = o.exc]

readiness_check(c, cf, dbf, migs, migf, mid, t) ==
    LET st == ready_migrations_step(
                  ready_cache_step(ready_db_step(ReadyStart(c, cf), dbf), mid),
                  migs, migf)
        all_healthy == all_values(st.checks)
    IN  IF st.exc # NoFault
        THEN HandlerResult(Propagated(st.exc), st.cache, st.fault, st.calls)
        ELSE HandlerResult(
                Response(HTTP_200_OK,
                         [ready |-> all_healthy,
                          checks |-> st.checks,
                          errors |-> IF st.errors # EmptyDict
                                     THEN PyDict(st.errors) ELSE PyNone,
                          timestamp |-> t]),
                st.cache, st.fault, st.calls)

----------------------------------------------------------------------------
\* Routing. A path is the sequence of its segments: /api/health/db/ is
\* <<"api", "health", "db">>.

Handlers ==
    {"health_check", "database_health_check", "cache_health_check", "readiness_check"}

\* @router.get(path) of each handler
RouterPath(h) ==
    CASE h = "health_check" -> <<"health">>
      [] h = "database_health_check" -> <<"health", "db">>
      [] h = "cache_health_check" -> <<"health", "cache">>
      [] h = "readiness_check" -> <<"health", "ready">>

\* The two routing configurations: "urls" is config/urls.py, the ROOT_URLCONF
\* (path('api/', api.urls) with the core router added under "/core/");
\* "api_config" is config/api_config.py as the tests' client uses it (the API
\* object itself, mounted nowhere, with the core router added under "").
Variants == {"urls", "api_config"}

MountPrefix(variant) == IF variant = "urls" THEN <<"api">> ELSE <<>>
RouterPrefix(variant) == IF variant = "urls" THEN <<"core">> ELSE <<>>

MountedPath(variant, h) ==
    MountPrefix(variant) \o RouterPrefix(variant) \o RouterPath(h)

\* the handler a path resolves to, "unresolved" when no route matches
Resolve(variant, path) ==
    IF \E h \in Handlers : MountedPath(variant, h) = path
    THEN CHOOSE h \in Handlers : MountedPath(variant, h) = path
    ELSE "unresolved"

\* the paths the tests request
TestPaths == { <<"api", "health">>, <<"api", "health", "db">> }

RequestPaths ==
    TestPaths \cup { MountedPath(v, h) : v \in Variants, h \in Handlers }

\* what a request yields when no route matches: Django answers 404; the test
\* client raises
unresolved(variant, path) ==
    IF variant = "urls"
    THEN Response(404, [detail |-> "Not Found"])
    ELSE Propagated([cls |-> "Exception", msg |-> "Cannot resolve"])

----------------------------------------------------------------------------
\* The User model and the creation of users.

Emails == {"test@example.com", "admin@example.com", "newuser@example.com"}
Usernames == {"test", "admin", "newuser"}

\* A create_user call: the username is None when the caller passes none, as
\* the fixtures of tests/conftest.py do.
CreateCalls ==
    [username : {PyNone} \cup {PyStr(u) : u \in Usernames}, email : Emails]

NoCreate == [kind |-> "none"]

\* def __str__(self): return self.email
user_str(row) == row.email

\* User.objects.create_user(...) on table tbl. User extends AbstractUser and
\* keeps its manager and its unique username column (REQUIRED_FIELDS names it);
\* email = models.EmailField(unique=True) adds the second unique column.
create_user(tbl, call) ==
    IF call.username = PyNone
    THEN Raised([cls |-> "TypeError",
                 msg |-> "create_user() missing 1 required positional argument: 'username'"])
    ELSE IF \E r \in tbl : r.username = call.username.value
    THEN Raised([cls |-> "IntegrityError",
                 msg |-> "UNIQUE constraint failed: users_user.username"])
    ELSE IF \E r \in tbl : r.email = call.email
    THEN Raised([cls |-> "IntegrityError",
                 msg |-> "UNIQUE constraint failed: users_user.email"])
    ELSE Returned([id |-> Cardinality(tbl) + 1,
                   username |-> call.username.value, email |-> call.email])

CreateUser ==
    /\ Cardinality(users) < MaxUsers
    /\ \E call \in CreateCalls :
        LET r == create_user(users, call)
        IN  /\ users' = IF r.raised THEN users ELSE users \cup {r.value}
            /\ lastCreate' = [kind |-> "create_user", call |-> call,
                              before |-> users, out |-> r]
    /\ UNCHANGED healthVars

----------------------------------------------------------------------------
\* The state machine of the health endpoints.

NoRequest ==
    [variant |-> "", path |-> <<>>, handler |-> "none",
     mid |-> [ev |-> "none", key |-> "", exc |-> NoFault],
     dbFault |-> NoFault, cacheFault |-> NoFault, migFault |-> NoFault,
     migrations |-> <<>>, cache |-> EmptyDict, now |-> 0]

NoResponse == [kind |-> "none"]

MigrationPlans == UNION { [1..n -> BOOLEAN] : n \in 0..MaxMigrations }

\* the request as received: where it was sent and what the services were like
Request(variant, path, handler, mid) ==
    [variant |-> variant, path |-> path, handler |-> handler, mid |-> mid,
     dbFault |-> dbFault, cacheFault |-> cacheFault, migFault |-> migFault,
     migrations |-> migrations, cache |-> cache, now |-> now]

NoMid == [ev |-> "none", key |-> "", exc |-> NoFault]

Serve(req, r) ==
    /\ lastRequest' = req
    /\ lastResponse' = r.resp
    /\ calls' = r.calls
    /\ cache' = r.cache
    /\ cacheFault' = r.fault
    /\ UNCHANGED <<dbFault, migFault, migrations, now>>
    /\ UNCHANGED userVars

GetHealth ==
    \E v \in Variants, p \in RequestPaths :
        /\ Resolve(v, p) = "health_check"
        /\ Serve(Request(v, p, "health_check", NoMid),
                 health_check(cache, cacheFault, now))

GetHealthDb ==
    \E v \in Variants, p \in RequestPaths :
        /\ Resolve(v, p) = "database_health_check"
        /\ Serve(Request(v, p, "database_health_check", NoMid),
                 database_health_check(cache, cacheFault, dbFault, now))

GetHealthCache ==
    \E v \in Variants, p \in RequestPaths, mid \in MidEvents :
        /\ Resolve(v, p) = "cache_health_check"
        /\ Serve(Request(v, p, "cache_health_check", mid),
                 cache_health_check(cache, cacheFault, mid, now))

GetHealthReady ==
    \E v \in Variants, p \in RequestPaths, mid \in MidEvents :
        /\ Resolve(v, p) = "readiness_check"
        /\ Serve(Request(v, p, "readiness_check", mid),
                 readiness_check(cache, cacheFault, dbFault, migrations,
                                 migFault, mid, now))

GetUnresolved ==
    \E v \in Variants, p \in RequestPaths :
        /\ Resolve(v, p) = "unresolved"
        /\ Serve(Request(v, p, "unresolved", NoMid),
                 HandlerResult(unresolved(v, p), cache, cacheFault, <<>>))

\* An environment step leaves no request behind.
Quiet ==
    /\ lastRequest' = NoRequest
    /\ lastResponse' = NoResponse
    /\ calls' = <<>>
    /\ UNCHANGED userVars

SetDbFault ==
    /\ \E f \in DbFaults \cup {NoFault} : f # dbFault /\ dbFault' = f
    /\ Quiet
    /\ UNCHANGED <<cacheFault, migFault, migrations, cache, now>>

SetCacheFault ==
    /\ \E f \in CacheFaults \cup {NoFault} : f # cacheFault /\ cacheFault' = f
    /\ Quiet
    /\ UNCHANGED <<dbFault, migFault, migrations, cache, now>>

SetMigFault ==
    /\ \E f \in MigFaults \cup {NoFault} : f # migFault /\ migFault' = f
    /\ Quiet
    /\ UNCHANGED <<dbFault, cacheFault, migrations, cache, now>>

SetMigrations ==
    /\ \E m \in MigrationPlans : m # migrations /\ migrations' = m
    /\ Quiet
    /\ UNCHANGED <<dbFault, cacheFault, migFault, cache, now>>

\* an entry's timeout passes, or the backend evicts it
CacheExpire ==
    /\ \E k \in DOMAIN cache : cache' = DictDel(cache, k)
    /\ Quiet
    /\ UNCHANGED <<dbFault, cacheFault, migFault, migrations, now>>

Tick ==
    /\ now < MaxClock
    /\ now' = now + 1
    /\ Quiet
    /\ UNCHANGED <<dbFault, cacheFault, migFault, migrations, cache>>

Init ==
    /\ dbFault = NoFault
    /\ cacheFault = NoFault
    /\ migFault = NoFault
    /\ migrations = <<>>
    /\ cache = EmptyDict
    /\ now = 0
    /\ lastRequest = NoRequest
    /\ lastResponse = NoResponse
    /\ calls = <<>>
    /\ users = {}
    /\ lastCreate = NoCreate

Next ==
    \/ GetHealth
    \/ GetHealthDb
    \/ GetHealthCache
    \/ GetHealthReady
    \/ GetUnresolved
    \/ SetDbFault
    \/ SetCacheFault
    \/ SetMigFault
    \/ SetMigrations
    \/ CacheExpire
    \/ Tick

Spec == Init /\ [][Next]_vars

NextUsers == CreateUser

SpecUsers == Init /\ [][NextUsers]_vars

----------------------------------------------------------------------------
\* Properties.

Served(h) == lastRequest.handler = h
Answered == lastResponse.kind = "response"

\* The sentinel written under key was read back as "ok": the write went through,
\* the backend stayed, and the entry was not removed before the read.
SentinelReadBack(req, key) ==
    /\ req.cacheFault = NoFault
    /\ req.mid.ev # "disconnect"
    /\ ~(req.mid.ev = "expire" /\ req.mid.key = key)

MigrationsClean(req) ==
    /\ req.migFault = NoFault
    /\ \A i \in 1..Len(req.migrations) : req.migrations[i]

\* C1: the ready field of a readiness response is the conjunction of its three
\* checks entries, and each entry is true exactly when its sub-check succeeded.
C1_ReadyIsConjunction ==
    Served("readiness_check") =>
        /\ Answered
        /\ LET b == lastResponse.body
           IN  /\ b.ready = (b.checks["database"] /\ b.checks["cache"]
                             /\ b.checks["migrations"])
               /\ b.checks["database"] = (lastRequest.dbFault = NoFault)
               /\ b.checks["cache"] = SentinelReadBack(lastRequest, "readiness_check")
               /\ b.checks["migrations"] = MigrationsClean(lastRequest)

C1_Witness ==
    /\ Served("readiness_check")
    /\ Answered
    /\ ~lastResponse.body.ready
    /\ ~lastResponse.body.checks["database"]
    /\ lastResponse.body.checks["cache"]
    /\ ~lastResponse.body.checks["migrations"]

\* C2: the readiness endpoint answers 503 when a sub-check is false and 200
\* only when all three are true.
C2_Status503 ==
    (Served("readiness_check") /\ Answered) =>
        LET b == lastResponse.body
            allTrue == \A k \in CheckNames : b.checks[k]
        IN  /\ ~allTrue => lastResponse.status = 503
            /\ lastResponse.status = 200 => allTrue

\* C3: the liveness handler answers 200 with status "healthy" whatever the
\* database and the cache are like and whatever was requested before.
C3_LivenessAlwaysHealthy ==
    Served("health_check") =>
        /\ Answered
        /\ lastResponse.status = 200
        /\ lastResponse.body.status = "healthy"

C3_Witness ==
    /\ Served("health_check")
    /\ lastRequest.dbFault # NoFault
    /\ lastRequest.cacheFault # NoFault
    /\ lastRequest.cache # EmptyDict
    /\ Answered
    /\ lastResponse.body.status = "healthy"

\* C4: the database check reports "connected" with a null error when the query
\* goes through, and "error" with the exception's string when it raises; it
\* answers normally in both cases.
C4_DatabaseCheck ==
    Served("database_health_check") =>
        /\ Answered
        /\ lastRequest.dbFault = NoFault =>
              /\ lastResponse.body.database = "connected"
              /\ lastResponse.body.error = PyNone
        /\ lastRequest.dbFault # NoFault =>
              /\ lastResponse.body.database = "error"
              /\ lastResponse.body.error # PyNone
              /\ lastResponse.body.error = PyStr(lastRequest.dbFault.msg)

C4_Witness ==
    /\ Served("database_health_check")
    /\ lastRequest.dbFault.cls = "OperationalError"
    /\ Answered
    /\ lastResponse.body.database = "error"

\* C5: the cache check reports "connected" exactly when the sentinel it wrote
\* under "health_check" is read back as "ok", and "error" in every other case.
C5_CacheCheck ==
    Served("cache_health_check") =>
        /\ Answered
        /\ lastResponse.body.cache \in {"connected", "error"}
        /\ (lastResponse.body.cache = "connected")
              <=> SentinelReadBack(lastRequest, "health_check")

C5_Witness ==
    /\ Served("cache_health_check")
    /\ lastRequest.cacheFault = NoFault
    /\ lastRequest.mid.ev = "expire"
    /\ lastRequest.mid.key = "health_check"
    /\ Answered
    /\ lastResponse.body.cache = "error"

\* C6: emails stay unique; a create_user call with an email already stored
\* fails with a uniqueness violation and leaves the table as it was, and one
\* with an unused email succeeds with str(user) == user.email.
C6_UserCreation ==
    /\ \A a, b \in users : a.email = b.email => a = b
    /\ lastCreate.kind = "create_user" =>
          IF \E r \in lastCreate.before : r.email = lastCreate.call.email
          THEN /\ lastCreate.out.raised
               /\ lastCreate.out.exc.cls = "IntegrityError"
               /\ users = lastCreate.before
          ELSE /\ ~lastCreate.out.raised
               /\ lastCreate.out.value \in users
               /\ user_str(lastCreate.out.value) = lastCreate.out.value.email
               /\ lastCreate.out.value.email = lastCreate.call.email

\* C7: GET /api/health/ reaches the liveness handler and answers 200 "healthy",
\* and GET /api/health/db/ with the database reachable reaches the database
\* check and answers 200 "connected".
C7_TestPathsRouted ==
    /\ lastRequest.path = <<"api", "health">> =>
          /\ Served("health_check")
          /\ Answered
          /\ lastResponse.status = 200
          /\ lastResponse.body.status = "healthy"
    /\ (lastRequest.path = <<"api", "health", "db">>
        /\ lastRequest.dbFault = NoFault) =>
          /\ Served("database_health_check")
          /\ Answered
          /\ lastResponse.status = 200
          /\ lastResponse.body.database = "connected"

\* C8: readiness_check recovers from every sub-check failure: it answers with
\* a body of ready, checks (three keys), errors and timestamp, having run the
\* database, cache and migrations steps in that order.
C8_ReadinessRecovers ==
    Served("readiness_check") =>
        /\ Answered
        /\ DOMAIN lastResponse.body = {"ready", "checks", "errors", "timestamp"}
        /\ DOMAIN lastResponse.body.checks = CheckNames
        /\ SelectSeq(calls, LAMBDA c : c # "cache.get")
              = <<"cursor.execute", "cache.set", "call_command">>

C8_Witness ==
    /\ Served("readiness_check")
    /\ lastRequest.dbFault # NoFault
    /\ lastRequest.cacheFault # NoFault
    /\ lastRequest.migFault # NoFault
    /\ Answered
    /\ calls = <<"cursor.execute", "cache.set", "call_command">>

\* C9: in a readiness response every check reported false has an entry in
\* errors, no check reported true has one, and errors is null exactly when
\* ready is true.
C9_ErrorsMatchChecks ==
    (Served("readiness_check") /\ Answered) =>
        LET b == lastResponse.body
            named == IF b.errors = PyNone THEN {} ELSE DOMAIN b.errors.value
        IN  /\ \A k \in CheckNames : (~b.checks[k]) <=> (k \in named)
            /\ (b.errors = PyNone) <=> b.ready

\* the response without its timestamp
NonTimestamp(resp) ==
    IF resp.kind = "response"
    THEN [resp EXCEPT !.body = [k \in (DOMAIN resp.body) \ {"timestamp"} |-> resp.body[k]]]
    ELSE resp

\* the response the request req gets when the cache holds c as it arrives
ResponseOn(req, c) ==
    CASE req.handler = "health_check" ->
            health_check(c, req.cacheFault, req.now).resp
      [] req.handler = "database_health_check" ->
            database_health_check(c, req.cacheFault, req.dbFault, req.now).resp
      [] req.handler = "cache_health_check" ->
            cache_health_check(c, req.cacheFault, req.mid, req.now).resp
      [] req.handler = "readiness_check" ->
            readiness_check(c, req.cacheFault, req.dbFault, req.migrations,
                            req.migFault, req.mid, req.now).resp

\* C10: the non-timestamp fields of a health response depend only on the
\* database, the cache backend and the migrations during the request: whatever
\* earlier requests left in the cache, the response is the same.
C10_NoStateAcrossCalls ==
    lastRequest.handler \in Handlers =>
        \A c \in CacheStates :
            NonTimestamp(ResponseOn(lastRequest, c)) = NonTimestamp(lastResponse)

C10_Witness ==
    /\ Served("cache_health_check")
    /\ DOMAIN lastRequest.cache = CacheKeys
    /\ lastRequest.mid.ev = "expire"
    /\ lastRequest.mid.key = "health_check"
    /\ Answered
    /\ lastResponse.body.cache = "error"

====
